---- MODULE Spec2Model ----
(***************************************************************************)
(* RepoWhisperer: the prompt chunker (parser/prompt_builder.py) and the    *)
(* markdown merger / repairer / validator (utils/markdown_writer.py).      *)
(*                                                                         *)
(* A text is a sequence of one-character strings.  Every operator below    *)
(* works on characters, as the Python code does.                           *)
(***************************************************************************)
EXTENDS Integers, Sequences, FiniteSets, TLC

VARIABLES
    prompt,          \* the argument of PromptBuilder.chunk_prompt
    max_chunk_size,  \* PromptBuilder.max_chunk_size
    chunks,          \* the list chunk_prompt returned
    chunked,         \* TRUE once chunk_prompt has returned
    llm_responses,   \* the response list handed to MarkdownWriter
    project_name,    \* the project name handed to generate_readme
    merged,          \* what merge_responses(llm_responses) returned
    merge_done,      \* TRUE once merge_responses has returned
    main_content,    \* generate_readme's main_content after lines 270-273
    final_readme,    \* what generate_readme returned
    readme_done,     \* TRUE once generate_readme has returned
    issues,          \* what validate_markdown(final_readme) returned
    validated,       \* TRUE once validate_markdown has returned
    document,        \* a document handed to validate_markdown directly
    document_issues, \* what validate_markdown(document) returned
    document_checked,\* TRUE once validate_markdown(document) has returned
    raw_text,        \* a text handed to _fix_markdown_formatting
    repaired,        \* what the latest _fix_markdown_formatting call returned
    repair_input,    \* the text the latest _fix_markdown_formatting call was given
    repair_calls,    \* how many times _fix_markdown_formatting has run
    raw_response,    \* a response handed to clean_llm_response
    cleaned_response,\* what clean_llm_response(raw_response) returned
    clean_done,      \* TRUE once clean_llm_response has returned
    llm_prompts,     \* the prompts handed to RepoWhisperer.generate_with_llm
    max_tokens,      \* ModelInference.max_tokens
    tokenizer,       \* ModelInference.tokenizer: "None" or "set"
    model,           \* ModelInference.model: "None" or "set"
    is_loaded,       \* ModelInference.is_loaded
    llm_pc,          \* where generate_with_llm stands
    chunk_i,         \* generate_in_chunks: the number of the prompt at hand
    chunk_responses, \* generate_in_chunks: the list responses
    max_new_tokens,  \* generate_response: max_new_tokens of the call at hand
    retries,         \* generate_response: how deep the retry recursion is
    llm_result,      \* what generate_with_llm returned
    failures,        \* the kinds of failure the run has met so far
    path_exists,     \* analyze_project: os.path.exists(project_path)
    file_paths,      \* analyze_project: what walk_project returned
    parse_i,         \* analyze_project: the number of the file at hand
    structures,      \* analyze_project: the list structures
    analyze_pc,      \* where analyze_project stands
    run_pc,          \* where RepoWhisperer.generate_readme stands
    prompts_built,   \* TRUE once generate_prompts has run
    files,           \* the file system: what the file at each path holds
    write_log,       \* the write_to_file calls made so far
    main_status      \* what main() reported about the run

chunkVars == <<prompt, max_chunk_size, chunks, chunked>>
writerVars == <<llm_responses, project_name, merged, merge_done, main_content,
                final_readme, readme_done, issues, validated>>
validateVars == <<document, document_issues, document_checked>>
repairVars == <<raw_text, repaired, repair_input, repair_calls>>
cleanVars == <<raw_response, cleaned_response, clean_done>>
llmVars == <<llm_prompts, max_tokens, tokenizer, model, is_loaded, llm_pc,
             chunk_i, chunk_responses, max_new_tokens, retries, llm_result,
             failures>>
analyzeVars == <<path_exists, file_paths, parse_i, structures, analyze_pc>>
runVars == <<run_pc, prompts_built, main_status>>
writeVars == <<files, write_log>>
sysVars == <<analyzeVars, runVars, writeVars>>
toolVars == <<validateVars, repairVars, cleanVars, llmVars, sysVars>>
vars == <<prompt, max_chunk_size, chunks, chunked, llm_responses, project_name,
          merged, merge_done, main_content, final_readme, readme_done, issues,
          validated, document, document_issues, document_checked, raw_text,
          repaired, repair_input, repair_calls, raw_response,
          cleaned_response, clean_done, llm_prompts, max_tokens, tokenizer,
          model, is_loaded, llm_pc, chunk_i, chunk_responses, max_new_tokens,
          retries, llm_result, failures, path_exists, file_paths, parse_i,
          structures, analyze_pc, run_pc, prompts_built, files, write_log,
          main_status>>

----------------------------------------------------------------------------
(* Bounds of the model.                                                    *)

MaxPromptLen == 8
MaxChunkSize == 4
MaxLines == 4
MaxPairLines == 2

----------------------------------------------------------------------------
(* Characters and the str methods the code uses.                           *)

NL == "\n"
SP == " "
TAB == "\t"

\* the backtick character (a string literal cannot hold one)
BT == "bt"

\* str.isspace(), which str.strip(), str.split() and the regex class \s share
IsSpace(c) == c = SP \/ c = NL \/ c = TAB

\* the character classes of the code's regular expressions and str methods:
\* "space" is \s, "word" is \S, "line" is [^\n], "hash" is #
InClass(c, cls) ==
    CASE cls = "space" -> IsSpace(c)
      [] cls = "word" -> ~IsSpace(c)
      [] cls = "line" -> c # NL
      [] cls = "hash" -> c = "#"

SetMin(S) == CHOOSE x \in S : \A y \in S : x <= y

SetMax(S) == CHOOSE x \in S : \A y \in S : x >= y

\* the length of the longest run of characters of class cls that starts at p
RunLen(s, p, cls) ==
    IF p > Len(s) THEN 0
    ELSE CHOOSE n \in 0..(Len(s) - p + 1) :
             /\ \A k \in p..(p + n - 1) : InClass(s[k], cls)
             /\ (p + n <= Len(s) => ~InClass(s[p + n], cls))

\* s[p:] of Python, with p the 1-based index of the first character kept
From(s, p) == SubSeq(s, p, Len(s))

\* not s.strip(): s is empty or all whitespace
IsBlank(s) == \A k \in 1..Len(s) : IsSpace(s[k])

\* str.strip()
Strip(s) ==
    IF IsBlank(s) THEN <<>>
    ELSE LET first == CHOOSE k \in 1..Len(s) :
                          ~IsSpace(s[k]) /\ \A j \in 1..(k - 1) : IsSpace(s[j])
             last == CHOOSE k \in 1..Len(s) :
                         ~IsSpace(s[k]) /\ \A j \in (k + 1)..Len(s) : IsSpace(s[j])
         IN  SubSeq(s, first, last)

\* str.startswith(p)
StartsWith(s, p) == Len(s) >= Len(p) /\ SubSeq(s, 1, Len(p)) = p

\* str.endswith(p)
EndsWith(s, p) == Len(s) >= Len(p) /\ SubSeq(s, Len(s) - Len(p) + 1, Len(s)) = p

\* s.startswith(p, i - 1): p occurs in s at the 1-based position i
OccursAt(s, p, i) == i + Len(p) - 1 <= Len(s) /\ SubSeq(s, i, i + Len(p) - 1) = p

\* p in s
Contains(s, p) == \E i \in 1..(Len(s) + 1) : OccursAt(s, p, i)

RECURSIVE Split(_)
\* str.split() without arguments: the maximal runs of non-whitespace
Split(s) ==
    LET lead == RunLen(s, 1, "space")
        n == RunLen(s, lead + 1, "word")
    IN  IF lead = Len(s) THEN <<>>
        ELSE <<SubSeq(s, lead + 1, lead + n)>> \o Split(From(s, lead + n + 1))

RECURSIVE JoinWith(_, _)
\* sep.join(parts)
JoinWith(sep, parts) ==
    IF parts = <<>> THEN <<>>
    ELSE IF Len(parts) = 1 THEN parts[1]
    ELSE parts[1] \o sep \o JoinWith(sep, Tail(parts))

RECURSIVE SplitOn(_, _)
\* str.split(c) on the single character c: one more piece than separators
SplitOn(s, c) ==
    LET at == {k \in 1..Len(s) : s[k] = c}
    IN  IF at = {} THEN <<s>>
        ELSE <<SubSeq(s, 1, SetMin(at) - 1)>> \o SplitOn(From(s, SetMin(at) + 1), c)

----------------------------------------------------------------------------
(* PromptBuilder.chunk_prompt                                              *)

RECURSIVE ChunkLoop(_, _, _, _, _)
\* the for loop of lines 270-276 from word i on, then lines 278-281
ChunkLoop(words, i, current_chunk, acc, M) ==
    IF i > Len(words)
    THEN IF current_chunk # <<>> THEN Append(acc, current_chunk) ELSE acc
    ELSE LET word == words[i]
         IN  IF Len(current_chunk) + Len(word) + 1 <= M
             THEN ChunkLoop(words, i + 1,
                            IF current_chunk # <<>>
                            THEN current_chunk \o <<SP>> \o word
                            ELSE word,
                            acc, M)
             ELSE ChunkLoop(words, i + 1, word,
                            IF current_chunk # <<>>
                            THEN Append(acc, current_chunk)
                            ELSE acc,
                            M)

RECURSIVE ChunkLoopNoSep(_, _, _, _, _)
\* ChunkLoop with the separator left out of the size test
ChunkLoopNoSep(words, i, current_chunk, acc, M) ==
    IF i > Len(words)
    THEN IF current_chunk # <<>> THEN Append(acc, current_chunk) ELSE acc
    ELSE LET word == words[i]
         IN  IF Len(current_chunk) + Len(word) <= M
             THEN ChunkLoopNoSep(words, i + 1,
                                 IF current_chunk # <<>>
                                 THEN current_chunk \o <<SP>> \o word
                                 ELSE word,
                                 acc, M)
             ELSE ChunkLoopNoSep(words, i + 1, word,
                                 IF current_chunk # <<>>
                                 THEN Append(acc, current_chunk)
                                 ELSE acc,
                                 M)

\* chunk_prompt that loses the buffer left over after the last word
chunk_prompt_no_flush(p, M) ==
    IF Len(p) <= M THEN <<p>>
    ELSE LET all == ChunkLoop(Split(p), 1, <<>>, <<>>, M)
         IN  IF all = <<>> THEN <<>> ELSE SubSeq(all, 1, Len(all) - 1)

\* chunk_prompt whose size test forgets the separator
chunk_prompt_no_sep(p, M) ==
    IF Len(p) <= M THEN <<p>>
    ELSE ChunkLoopNoSep(Split(p), 1, <<>>, <<>>, M)

\* chunk_prompt without the early return of lines 263-264
chunk_prompt_no_shortcut(p, M) == ChunkLoop(Split(p), 1, <<>>, <<>>, M)

\* chunk_prompt whose early return yields no chunk for the empty prompt
chunk_prompt_empty_list(p, M) ==
    IF p = <<>> THEN <<>>
    ELSE IF Len(p) <= M THEN <<p>>
    ELSE ChunkLoop(Split(p), 1, <<>>, <<>>, M)

chunk_prompt(p, M) ==
    IF Len(p) <= M THEN <<p>>
    ELSE ChunkLoop(Split(p), 1, <<>>, <<>>, M)

----------------------------------------------------------------------------
(* MarkdownWriter._fix_markdown_formatting: four re.sub passes.  Each      *)
(* pattern starts with \n, so a match is looked for at every newline, from *)
(* left to right, and the search goes on after the end of a match.  A      *)
(* match is the pair <<k, e>> of the indices of its first and last         *)
(* character; <<0, 0>> stands for no match.  Greedy quantifiers try their  *)
(* longest run first and lazy ones their shortest, as the re module does.  *)

FENCE == <<BT, BT, BT>>

ListMarkers == {"-", "*", "+"}

NoMatch == <<0, 0>>

\* the leftmost of a set of matches <<k, e>>
Leftmost(S) ==
    IF S = {} THEN NoMatch ELSE CHOOSE m \in S : \A x \in S : m[1] <= x[1]

\* of a set of attempts <<n, e>>, n the length a quantifier takes and e the
\* end of the match it leads to, the end for the longest n; 0 when none
EndOfLongest(S) ==
    IF S = {} THEN 0 ELSE (CHOOSE m \in S : \A x \in S : m[1] >= x[1])[2]

\* the same for the shortest n
EndOfShortest(S) ==
    IF S = {} THEN 0 ELSE (CHOOSE m \in S : \A x \in S : m[1] <= x[1])[2]

\* [^\n]+\n(?!\n) from q on, the run [^\n]+ being t long: the index of the
\* \n, or 0 when it does not match
LineEndAt(s, q, t) ==
    IF /\ t >= 1
       /\ q + t <= Len(s)
       /\ (q + t + 1 <= Len(s) => s[q + t + 1] # NL)
    THEN q + t
    ELSE 0

\* \s+[^\n]+\n(?!\n) from p on, w the whitespace that \s+ can take
HeaderTail(s, p, w) ==
    EndOfLongest({a \in {<<m, LineEndAt(s, p + m, RunLen(s, p + m, "line"))>> :
                            m \in 1..w} : a[2] > 0})

\* #+\s+[^\n]+\n(?!\n) from i + 1 on, p the index after the run of #
HeaderAfterHashes(s, i, p) ==
    IF p = i + 1 THEN 0 ELSE HeaderTail(s, p, RunLen(s, p, "space"))

\* \n(#+\s+[^\n]+)\n(?!\n) at i: the end of the match, or 0
HeaderMatchEnd(s, i) ==
    IF s[i] # NL THEN 0
    ELSE HeaderAfterHashes(s, i, i + 1 + RunLen(s, i + 1, "hash"))

RECURSIVE SubHeaders(_, _)
\* the text from i on, m being the leftmost match in it: up to the end of
\* the match, a newline more, and on
SubHeadersAt(s, i, m) ==
    IF m = NoMatch THEN From(s, i)
    ELSE SubSeq(s, i, m[2]) \o <<NL>> \o SubHeaders(s, m[2] + 1)

\* re.sub(r'\n(#+\s+[^\n]+)\n(?!\n)', r'\n\1\n\n', content), from index i on
SubHeaders(s, i) ==
    SubHeadersAt(s, i,
        Leftmost({m \in {<<k, HeaderMatchEnd(s, k)>> : k \in i..Len(s)} : m[2] > 0}))

\* (?!\s*[-*+\n]) at p, w the whitespace from p on: no run of it is
\* followed by a list marker or a newline
NoListAhead(s, p, w) ==
    ~\E k \in 0..w :
        \/ (k >= 1 /\ s[p + k - 1] = NL)
        \/ (p + k <= Len(s) /\ s[p + k] \in ListMarkers \cup {NL})

\* [^\n]+\n(?!\s*[-*+\n]) from q on, the run [^\n]+ being t long
ListLineEndAt(s, q, t) ==
    IF /\ t >= 1
       /\ q + t <= Len(s)
       /\ NoListAhead(s, q + t + 1, RunLen(s, q + t + 1, "space"))
    THEN q + t
    ELSE 0

\* [-*+]\s+[^\n]+\n(?!\s*[-*+\n]) from p on, w the whitespace \s+ can take
ListItemEnd(s, p, w) ==
    IF p > Len(s) \/ s[p] \notin ListMarkers THEN 0
    ELSE EndOfLongest(
             {a \in {<<m, ListLineEndAt(s, p + 1 + m, RunLen(s, p + 1 + m, "line"))>> :
                        m \in 1..w} : a[2] > 0})

\* \s*[-*+]\s+[^\n]+\n(?!\s*[-*+\n]) from i + 1 on, lead the whitespace the
\* first \s* can take
ListAfterLead(s, i, lead) ==
    EndOfLongest(
        {a \in {<<n, ListItemEnd(s, i + 1 + n, RunLen(s, i + 2 + n, "space"))>> :
                   n \in 0..lead} : a[2] > 0})

\* \n(\s*[-*+]\s+[^\n]+)\n(?!\s*[-*+\n]) at i: the end of the match, or 0
ListMatchEnd(s, i) ==
    IF s[i] # NL THEN 0 ELSE ListAfterLead(s, i, RunLen(s, i + 1, "space"))

RECURSIVE SubLists(_, _)
\* the text from i on, m being the leftmost match in it; the replacement
\* \n\1\n writes the match back
SubListsAt(s, i, m) ==
    IF m = NoMatch THEN From(s, i)
    ELSE SubSeq(s, i, m[1] - 1)
             \o <<NL>> \o SubSeq(s, m[1] + 1, m[2] - 1) \o <<NL>>
             \o SubLists(s, m[2] + 1)

\* re.sub(r'\n(\s*[-*+]\s+[^\n]+)\n(?!\s*[-*+\n])', r'\n\1\n', content)
SubLists(s, i) ==
    SubListsAt(s, i,
        Leftmost({m \in {<<k, ListMatchEnd(s, k)>> : k \in i..Len(s)} : m[2] > 0}))

\* .*?\nFENCE\n(?!\n) from q + 1 on, q the \n that ends the opening line:
\* .*? takes the fewest characters c that let the rest match
CodeBlockClose(s, q) ==
    IF q > Len(s) THEN 0
    ELSE EndOfShortest(
             {<<c, q + 5 + c>> : c \in {d \in 0..Len(s) :
                 /\ OccursAt(s, <<NL>> \o FENCE \o <<NL>>, q + 1 + d)
                 /\ (q + 6 + d <= Len(s) => s[q + 6 + d] # NL)}})

\* \n(FENCE[^\n]*\n.*?\nFENCE)\n(?!\n) with re.DOTALL at i, FENCE standing
\* for the three backticks: the end of the match, or 0
CodeMatchEnd(s, i) ==
    IF s[i] # NL \/ ~OccursAt(s, FENCE, i + 1) THEN 0
    ELSE CodeBlockClose(s, i + 4 + RunLen(s, i + 4, "line"))

RECURSIVE SubCodeBlocks(_, _)
\* the text from i on, m being the leftmost match in it
SubCodeBlocksAt(s, i, m) ==
    IF m = NoMatch THEN From(s, i)
    ELSE SubSeq(s, i, m[2]) \o <<NL>> \o SubCodeBlocks(s, m[2] + 1)

\* re.sub(r'\n(FENCE[^\n]*\n.*?\nFENCE)\n(?!\n)', r'\n\1\n\n', content,
\* flags=re.DOTALL)
SubCodeBlocks(s, i) ==
    SubCodeBlocksAt(s, i,
        Leftmost({m \in {<<k, CodeMatchEnd(s, k)>> : k \in i..Len(s)} : m[2] > 0}))

\* \s*\n from a + 1 on, inside the whitespace that ends at last: the \s*
\* takes the longest run that a \n follows
BlankThird(s, a, last) ==
    EndOfLongest({<<b, b>> : b \in {c \in (a + 1)..last : s[c] = NL}})

\* \s*\n\s*\n from i + 1 on, inside the whitespace that ends at last
BlankSecond(s, i, last) ==
    EndOfLongest({m \in {<<a, BlankThird(s, a, last)>> :
                            a \in {c \in (i + 1)..last : s[c] = NL}} : m[2] > 0})

\* \n\s*\n\s*\n at i: the end of the match, or 0
BlankMatchEnd(s, i) ==
    IF s[i] # NL THEN 0 ELSE BlankSecond(s, i, i + RunLen(s, i + 1, "space"))

RECURSIVE SubBlankLines(_, _)
\* the text from i on, m being the leftmost match in it
SubBlankLinesAt(s, i, m) ==
    IF m = NoMatch THEN From(s, i)
    ELSE SubSeq(s, i, m[1] - 1) \o <<NL, NL>> \o SubBlankLines(s, m[2] + 1)

\* re.sub(r'\n\s*\n\s*\n', '\n\n', content)
SubBlankLines(s, i) ==
    SubBlankLinesAt(s, i,
        Leftmost({m \in {<<k, BlankMatchEnd(s, k)>> : k \in i..Len(s)} : m[2] > 0}))

\* the four substitutions, then a closing fence for a fence left open
_fix_markdown_formatting_closing(content) ==
    LET fixed == SubBlankLines(SubCodeBlocks(SubLists(SubHeaders(content, 1), 1), 1), 1)
        lines == SplitOn(fixed, NL)
        opened == Cardinality({i \in DOMAIN lines : StartsWith(lines[i], FENCE)})
    IN  IF opened % 2 = 1 THEN fixed \o <<NL>> \o FENCE ELSE fixed

_fix_markdown_formatting(content) ==
    SubBlankLines(SubCodeBlocks(SubLists(SubHeaders(content, 1), 1), 1), 1)

----------------------------------------------------------------------------
(* MarkdownWriter.clean_llm_response                                       *)

prefixes_to_remove == <<
    <<"H", "e", "r", "e", "'", "s", " ", "t", "h", "e", " ", "R", "E", "A", "D",
      "M", "E", ".", "m", "d", " ", "c", "o", "n", "t", "e", "n", "t", ":">>,
    <<"H", "e", "r", "e", " ", "i", "s", " ", "t", "h", "e", " ", "R", "E", "A",
      "D", "M", "E", ".", "m", "d", ":">>,
    <<"#", " ", "R", "E", "A", "D", "M", "E", ".", "m", "d">>,
    <<BT, BT, BT, "m", "a", "r", "k", "d", "o", "w", "n">>,
    <<BT, BT, BT, "m", "d">> >>

suffixes_to_remove == <<
    <<BT, BT, BT>>,
    <<"-", "-", "-">>,
    <<"E", "n", "d", " ", "o", "f", " ", "R", "E", "A", "D", "M", "E">> >>

RECURSIVE RemovePrefixes(_, _)
\* the loop of lines 211-213
RemovePrefixes(cleaned, prefixes) ==
    IF prefixes = <<>> THEN cleaned
    ELSE LET prefix == Head(prefixes)
         IN  RemovePrefixes(IF StartsWith(cleaned, prefix)
                            THEN Strip(From(cleaned, Len(prefix) + 1))
                            ELSE cleaned,
                            Tail(prefixes))

RECURSIVE RemoveSuffixes(_, _)
\* the loop of lines 215-217
RemoveSuffixes(cleaned, suffixes) ==
    IF suffixes = <<>> THEN cleaned
    ELSE LET suffix == Head(suffixes)
         IN  RemoveSuffixes(IF EndsWith(cleaned, suffix)
                            THEN Strip(SubSeq(cleaned, 1, Len(cleaned) - Len(suffix)))
                            ELSE cleaned,
                            Tail(suffixes))

clean_llm_response(response) ==
    _fix_markdown_formatting(
        RemoveSuffixes(RemovePrefixes(Strip(response), prefixes_to_remove),
                       suffixes_to_remove))

----------------------------------------------------------------------------
(* MarkdownWriter.merge_responses                                          *)

H2 == <<"#", "#">>

\* the separators of re.split(r'\n(?=##\s)', s): the newlines followed by ##
\* and a whitespace character
H2Breaks(s) ==
    {k \in 1..Len(s) :
        /\ s[k] = NL
        /\ OccursAt(s, H2, k + 1)
        /\ k + 3 <= Len(s)
        /\ IsSpace(s[k + 3])}

RECURSIVE SplitAtH2(_)
\* re.split(r'\n(?=##\s)', s)
SplitAtH2(s) ==
    LET breaks == H2Breaks(s)
    IN  IF breaks = {} THEN <<s>>
        ELSE <<SubSeq(s, 1, SetMin(breaks) - 1)>>
                 \o SplitAtH2(From(s, SetMin(breaks) + 1))

RECURSIVE AppendSections(_, _, _)
\* the loop of lines 256-258 over sections[k:]
AppendSections(acc, sections, k) ==
    IF k > Len(sections) THEN acc
    ELSE AppendSections(IF ~IsBlank(sections[k])
                        THEN acc \o <<NL, NL, "#", "#", SP>> \o sections[k]
                        ELSE acc,
                        sections, k + 1)

\* lines 247-261 for the response at index k (0-based index k - 1), cleaned
\* being its cleaned text
MergeCleaned(acc, cleaned, k) ==
    IF k = 1 THEN cleaned
    ELSE IF Contains(cleaned, H2)
    THEN AppendSections(acc, SplitAtH2(cleaned), 2)
    ELSE acc \o <<NL, NL>> \o cleaned

\* lines 245-261 for the response at index k
MergeOne(acc, response, k) ==
    MergeCleaned(acc, clean_llm_response(response), k)

RECURSIVE MergeLoop(_, _, _)
\* the for loop of lines 244-261 from the response at index k on
MergeLoop(acc, responses, k) ==
    IF k > Len(responses) THEN acc
    ELSE MergeLoop(MergeOne(acc, responses[k], k), responses, k + 1)

merge_responses(responses) ==
    _fix_markdown_formatting(MergeLoop(<<>>, responses, 1))

----------------------------------------------------------------------------
(* MarkdownWriter.generate_readme                                          *)

\* lines 270-273
MainContent(responses) ==
    IF Len(responses) = 1 THEN clean_llm_response(responses[1])
    ELSE merge_responses(responses)

\* generate_readme that never synthesizes the title
WithTitle_never(content, name) == content

\* lines 276-277
WithTitle(content, name) ==
    IF ~StartsWith(content, <<"#">>)
    THEN <<"#", SP>> \o name \o <<NL, NL>> \o content
    ELSE content

\* the footer without its horizontal rule
Footer_no_rule(timestamp) ==
    <<NL, NL,
      "*", "T", "h", "i", "s", " ", "R", "E", "A", "D", "M", "E", " ", "w", "a",
      "s", " ", "g", "e", "n", "e", "r", "a", "t", "e", "d", " ", "b", "y", " ",
      "R", "e", "p", "o", "W", "h", "i", "s", "p", "e", "r", "e", "r", " ", "o",
      "n", " ">> \o timestamp \o <<"*">>

\* line 281, with timestamp the text strftime returned
Footer(timestamp) ==
    <<NL, NL, "-", "-", "-", NL,
      "*", "T", "h", "i", "s", " ", "R", "E", "A", "D", "M", "E", " ", "w", "a",
      "s", " ", "g", "e", "n", "e", "r", "a", "t", "e", "d", " ", "b", "y", " ",
      "R", "e", "p", "o", "W", "h", "i", "s", "p", "e", "r", "e", "r", " ", "o",
      "n", " ">> \o timestamp \o <<"*">>

\* lines 275-285 on the main content of lines 270-273
AssembleReadme(content, name, timestamp) ==
    _fix_markdown_formatting(WithTitle(content, name) \o Footer(timestamp))

\* generate_readme; file_paths is not read by the code
generate_readme(responses, name, timestamp) ==
    AssembleReadme(MainContent(responses), name, timestamp)

----------------------------------------------------------------------------
(* MarkdownWriter.validate_markdown.  An issue is its message and the line *)
(* number the message carries (0 when it carries none).                    *)

Issue(msg, line) == [msg |-> msg, line |-> line]

EmptyIssue == Issue("Content is empty", 0)

MissingTitleIssue == Issue("Missing main title (should start with #)", 0)

MalformedIssue(i) == Issue("Malformed header - missing space after #", i)

UnclosedIssue(i) == Issue("Unclosed code block", i)

\* re.match(r'^#+\s+', line)
MatchesHeader(line) ==
    LET h == RunLen(line, 1, "hash")
    IN  h >= 1 /\ h + 1 <= Len(line) /\ IsSpace(line[h + 1])

\* lines 314-316 for the line numbered i
MalformedAt(lines, i) ==
    LET line == lines[i]
    IN  IF /\ StartsWith(line, <<"#">>)
           /\ ~StartsWith(line, <<"#", SP>>)
           /\ Len(line) > 1
           /\ ~MatchesHeader(line)
        THEN <<MalformedIssue(i)>>
        ELSE <<>>

\* the closer looked for from the line itself on
UnclosedAt_from_self(lines, i) ==
    IF /\ Strip(lines[i]) = FENCE
       /\ ~\E j \in i..Len(lines) : Strip(lines[j]) = FENCE
    THEN <<UnclosedIssue(i)>>
    ELSE <<>>

\* lines 319-327 for the line numbered i: the closer is looked for in
\* lines[i:], the lines after it
UnclosedAt(lines, i) ==
    IF /\ Strip(lines[i]) = FENCE
       /\ ~\E j \in (i + 1)..Len(lines) : Strip(lines[j]) = FENCE
    THEN <<UnclosedIssue(i)>>
    ELSE <<>>

RECURSIVE LineIssues(_, _)
\* the loop of lines 312-327 from the line numbered i on
LineIssues(lines, i) ==
    IF i > Len(lines) THEN <<>>
    ELSE MalformedAt(lines, i) \o UnclosedAt(lines, i) \o LineIssues(lines, i + 1)

validate_markdown(content) ==
    IF IsBlank(content) THEN <<EmptyIssue>>
    ELSE (IF ~StartsWith(content, <<"#">>) THEN <<MissingTitleIssue>> ELSE <<>>)
             \o LineIssues(SplitOn(content, NL), 1)

----------------------------------------------------------------------------
(* The chunker as a state machine: a prompt and a size are drawn, then     *)
(* chunk_prompt runs once.                                                 *)

\* two words and two kinds of whitespace in the shorter prompts, one of each
\* in the longest ones
PromptChars == {"a", "b", SP, NL}

LongPromptChars == {"a", SP}

RECURSIVE TextsUpTo(_, _)
TextsUpTo(A, n) ==
    IF n = 0 THEN {<<>>}
    ELSE LET shorter == TextsUpTo(A, n - 1)
         IN  shorter \cup {Append(t, c) : t \in {u \in shorter : Len(u) = n - 1}, c \in A}

Prompts ==
    TextsUpTo(PromptChars, MaxPromptLen - 2) \cup TextsUpTo(LongPromptChars, MaxPromptLen)

ValidateIdle ==
    /\ document = <<>>
    /\ document_issues = <<>>
    /\ document_checked = FALSE

RepairIdle ==
    /\ raw_text = <<>>
    /\ repaired = <<>>
    /\ repair_input = <<>>
    /\ repair_calls = 0

CleanIdle ==
    /\ raw_response = <<>>
    /\ cleaned_response = <<>>
    /\ clean_done = FALSE

LlmIdle ==
    /\ llm_prompts = <<>>
    /\ max_tokens = 1
    /\ tokenizer = "None"
    /\ model = "None"
    /\ is_loaded = FALSE
    /\ llm_pc = "idle"
    /\ chunk_i = 0
    /\ chunk_responses = <<>>
    /\ max_new_tokens = 0
    /\ retries = 0
    /\ llm_result = <<>>
    /\ failures = {}

AnalyzeIdle ==
    /\ path_exists = TRUE
    /\ file_paths = <<>>
    /\ parse_i = 0
    /\ structures = <<>>
    /\ analyze_pc = "idle"

RunIdle ==
    /\ run_pc = "idle"
    /\ prompts_built = FALSE
    /\ main_status = "none"

WriteIdle ==
    /\ files = <<>>
    /\ write_log = <<>>

SysIdle == AnalyzeIdle /\ RunIdle /\ WriteIdle

ToolsIdle == ValidateIdle /\ RepairIdle /\ CleanIdle /\ LlmIdle /\ SysIdle

WriterIdle ==
    /\ llm_responses = <<>>
    /\ project_name = <<>>
    /\ merged = <<>>
    /\ merge_done = FALSE
    /\ main_content = <<>>
    /\ final_readme = <<>>
    /\ readme_done = FALSE
    /\ issues = <<>>
    /\ validated = FALSE

InitChunk ==
    /\ prompt \in Prompts
    /\ max_chunk_size \in 1..MaxChunkSize
    /\ chunks = <<>>
    /\ chunked = FALSE
    /\ WriterIdle
    /\ ToolsIdle

ChunkPrompt ==
    /\ ~chunked
    /\ chunks' = chunk_prompt(prompt, max_chunk_size)
    /\ chunked' = TRUE
    /\ UNCHANGED <<prompt, max_chunk_size>>
    /\ UNCHANGED writerVars
    /\ UNCHANGED toolVars

NextChunk == ChunkPrompt

SpecChunk == InitChunk /\ [][NextChunk]_vars

----------------------------------------------------------------------------
(* The writer as a state machine: a response list and a project name are   *)
(* drawn; merge_responses runs on them, then generate_readme, then         *)
(* validate_markdown on the text generate_readme returned.                 *)

\* the lines responses are made of: blank, plain text, headings of levels
\* 1 to 3, a # without its space, ## inside a line, a bare fence
ResponseLines == {
    <<>>,
    <<"b">>,
    <<"#", SP, "T">>,
    <<"#", "#", SP, "E">>,
    <<"#", "#", "#", SP, "S">>,
    <<"#", "a">>,
    <<"a", SP, "#", "#", SP, "b">>,
    FENCE }

\* the lines of the longer responses: blank, plain text, headings
CoreLines == {
    <<>>,
    <<"b">>,
    <<"#", SP, "T">>,
    <<"#", "#", SP, "E">> }

RECURSIVE TextsOfLines(_, _)
\* the texts of 1 to n lines drawn from L
TextsOfLines(L, n) ==
    IF n <= 1 THEN L
    ELSE LET shorter == TextsOfLines(L, n - 1)
             longest == {t \in shorter : Len(SplitOn(t, NL)) = n - 1}
         IN  shorter \cup {t \o <<NL>> \o l : t \in longest, l \in L}

\* the first response of a two-response list: a titled text or a plain one
FirstResponses == { <<"#", SP, "T", NL, "b">>, <<"b">> }

ResponseLists ==
    {<<>>}
        \cup {<<r>> : r \in TextsOfLines(CoreLines, MaxLines)}
        \cup {<<r>> : r \in TextsOfLines(ResponseLines, MaxPairLines)}
        \cup {<<f, r>> : f \in FirstResponses,
                         r \in TextsOfLines(ResponseLines, MaxPairLines)}

ProjectNames == { <<"p">>, <<"m", "y">> }

\* what datetime.now().strftime("%Y-%m-%d %H:%M:%S") may return
Timestamps == {
    <<"2", "0", "2", "4", "-", "0", "1", "-", "1", "5", SP,
      "1", "0", ":", "3", "0", ":", "0", "0">>,
    <<"2", "0", "2", "5", "-", "1", "2", "-", "3", "1", SP,
      "2", "3", ":", "5", "9", ":", "5", "9">> }

ChunkIdle ==
    /\ prompt = <<>>
    /\ max_chunk_size = 1
    /\ chunks = <<>>
    /\ chunked = FALSE

InitWriter ==
    /\ llm_responses \in ResponseLists
    /\ project_name \in ProjectNames
    /\ merged = <<>>
    /\ merge_done = FALSE
    /\ main_content = <<>>
    /\ final_readme = <<>>
    /\ readme_done = FALSE
    /\ issues = <<>>
    /\ validated = FALSE
    /\ ChunkIdle
    /\ ToolsIdle

MergeResponses ==
    /\ ~merge_done
    /\ merged' = merge_responses(llm_responses)
    /\ merge_done' = TRUE
    /\ UNCHANGED <<llm_responses, project_name, main_content, final_readme,
                   readme_done, issues, validated>>
    /\ UNCHANGED chunkVars
    /\ UNCHANGED toolVars

GenerateReadme ==
    /\ merge_done
    /\ ~readme_done
    /\ main_content' = MainContent(llm_responses)
    /\ \E timestamp \in Timestamps :
          final_readme' = AssembleReadme(main_content', project_name, timestamp)
    /\ readme_done' = TRUE
    /\ UNCHANGED <<llm_responses, project_name, merged, merge_done, issues,
                   validated>>
    /\ UNCHANGED chunkVars
    /\ UNCHANGED toolVars

ValidateMarkdown ==
    /\ readme_done
    /\ ~validated
    /\ issues' = validate_markdown(final_readme)
    /\ validated' = TRUE
    /\ UNCHANGED <<llm_responses, project_name, merged, merge_done, main_content,
                   final_readme, readme_done>>
    /\ UNCHANGED chunkVars
    /\ UNCHANGED toolVars

NextWriter ==
    \/ MergeResponses
    \/ GenerateReadme
    \/ ValidateMarkdown

SpecWriter == InitWriter /\ [][NextWriter]_vars

----------------------------------------------------------------------------
(* validate_markdown as a state machine of its own: a document is drawn,   *)
(* then validate_markdown runs on it once.                                 *)

MaxDocLines == 3

\* the lines documents are made of: blank, plain text, headings of levels 1
\* and 2, # without its space, bare markers, a bare fence, an indented
\* fence, # followed by a tab
DocumentLines == {
    <<>>,
    <<"b">>,
    <<"#", SP, "T">>,
    <<"#", "#", SP, "E">>,
    <<"#", "a">>,
    <<"#", "#">>,
    <<"#">>,
    FENCE,
    <<SP>> \o FENCE,
    <<"#", TAB, "x">> }

Documents == TextsOfLines(DocumentLines, MaxDocLines)

InitValidate ==
    /\ document \in Documents
    /\ document_issues = <<>>
    /\ document_checked = FALSE
    /\ RepairIdle
    /\ CleanIdle
    /\ LlmIdle
    /\ SysIdle
    /\ ChunkIdle
    /\ WriterIdle

ValidateDocument ==
    /\ ~document_checked
    /\ document_issues' = validate_markdown(document)
    /\ document_checked' = TRUE
    /\ UNCHANGED document
    /\ UNCHANGED <<repairVars, cleanVars, llmVars, sysVars, chunkVars,
                   writerVars>>

NextValidate == ValidateDocument

SpecValidate == InitValidate /\ [][NextValidate]_vars

----------------------------------------------------------------------------
(* _fix_markdown_formatting as a state machine of its own: a text is       *)
(* drawn, the pass runs on it, then again on what it returned.             *)

MaxRepairLines == 4
MaxRepairCalls == 2

\* the lines texts are made of: blank, plain text, a heading, a bare fence,
\* a fence with a language, a list item
RepairLines == {
    <<>>,
    <<"b">>,
    <<"#", SP, "T">>,
    FENCE,
    FENCE \o <<"x">>,
    <<"-", SP, "i">> }

RepairTexts == TextsOfLines(RepairLines, MaxRepairLines)

InitRepair ==
    /\ raw_text \in RepairTexts
    /\ repaired = <<>>
    /\ repair_input = <<>>
    /\ repair_calls = 0
    /\ ValidateIdle
    /\ CleanIdle
    /\ LlmIdle
    /\ SysIdle
    /\ ChunkIdle
    /\ WriterIdle

\* the first call is given the text, every later call what the call before
\* it returned
FixMarkdownFormatting ==
    /\ repair_calls < MaxRepairCalls
    /\ repair_input' = (IF repair_calls = 0 THEN raw_text ELSE repaired)
    /\ repaired' = _fix_markdown_formatting(repair_input')
    /\ repair_calls' = repair_calls + 1
    /\ UNCHANGED raw_text
    /\ UNCHANGED <<validateVars, cleanVars, llmVars, sysVars, chunkVars,
                   writerVars>>

NextRepair == FixMarkdownFormatting

SpecRepair == InitRepair /\ [][NextRepair]_vars

----------------------------------------------------------------------------
(* clean_llm_response as a state machine of its own: a response is drawn,  *)
(* then clean_llm_response runs on it once.                                *)

MaxCleanLines == 3

\* the lines responses are made of: every known prefix, every known suffix,
\* plain text
CleanLines ==
    {prefixes_to_remove[k] : k \in DOMAIN prefixes_to_remove}
        \cup {suffixes_to_remove[k] : k \in DOMAIN suffixes_to_remove}
        \cup {<<"b">>}

RawResponses == TextsOfLines(CleanLines, MaxCleanLines)

InitClean ==
    /\ raw_response \in RawResponses
    /\ cleaned_response = <<>>
    /\ clean_done = FALSE
    /\ ValidateIdle
    /\ RepairIdle
    /\ LlmIdle
    /\ SysIdle
    /\ ChunkIdle
    /\ WriterIdle

CleanLlmResponse ==
    /\ ~clean_done
    /\ cleaned_response' = clean_llm_response(raw_response)
    /\ clean_done' = TRUE
    /\ UNCHANGED raw_response
    /\ UNCHANGED <<validateVars, repairVars, llmVars, sysVars, chunkVars,
                   writerVars>>

NextClean == CleanLlmResponse

SpecClean == InitClean /\ [][NextClean]_vars

----------------------------------------------------------------------------
(* RepoWhisperer.generate_with_llm as a state machine: the wrapper loads   *)
(* the model, generate_in_chunks calls generate_response for one prompt    *)
(* after the other, and the wrapper unloads the model on the way out.  A   *)
(* response is known by its kind and the number of the prompt it is for.   *)

MaxPrompts == 2
MaxRetries == 13

\* the 2048 of generate_response
TokenCap == 2048

\* ModelInference.max_tokens: a small value and the default of the wrapper
MaxTokensValues == {3, 4096}

\* min(self.max_tokens, 2048)
DefaultNewTokens(mt) == IF mt < TokenCap THEN mt ELSE TokenCap

\* max_new_tokens or min(self.max_tokens, 2048); None is written 0, and 0
\* is as falsy as None
EnterTokens(arg, mt) == IF arg = 0 THEN DefaultNewTokens(mt) ELSE arg

Generated(i) == [kind |-> "generated", chunk |-> i]

ErrorGenerating(i) == [kind |-> "Error generating response", chunk |-> i]

ErrorProcessing(i) == [kind |-> "Error processing chunk", chunk |-> i]

\* _generate_fallback_readme: a list holding the template
_generate_fallback_readme == <<[kind |-> "fallback template", chunk |-> 0]>>

\* unload_model
UnloadModel ==
    /\ model' = "None"
    /\ tokenizer' = "None"
    /\ is_loaded' = FALSE

\* the next prompt of generate_in_chunks: generate_response is entered with
\* max_new_tokens = None
NextPrompt ==
    /\ chunk_i' = chunk_i + 1
    /\ max_new_tokens' = EnterTokens(0, max_tokens)
    /\ retries' = 0

InitLlm ==
    /\ llm_prompts \in {[k \in 1..n |-> k] : n \in 0..MaxPrompts}
    /\ max_tokens \in MaxTokensValues
    /\ tokenizer = "None"
    /\ model = "None"
    /\ is_loaded = FALSE
    /\ llm_pc = "start"
    /\ chunk_i = 0
    /\ chunk_responses = <<>>
    /\ max_new_tokens = 0
    /\ retries = 0
    /\ llm_result = <<>>
    /\ failures = {}
    /\ ValidateIdle
    /\ RepairIdle
    /\ CleanIdle
    /\ SysIdle
    /\ ChunkIdle
    /\ WriterIdle

\* __enter__: load_model returns True
LoadModel ==
    /\ llm_pc = "start"
    /\ tokenizer' = "set"
    /\ model' = "set"
    /\ is_loaded' = TRUE
    /\ llm_pc' = "loaded"
    /\ UNCHANGED <<llm_prompts, max_tokens, chunk_i, chunk_responses,
                   max_new_tokens, retries, llm_result, failures>>
    /\ UNCHANGED <<validateVars, repairVars, cleanVars, chunkVars, writerVars>>
    /\ UNCHANGED sysVars

\* __enter__: load_model returns False, with or without the tokenizer it
\* loaded first; __enter__ raises, __exit__ is not run, and generate_with_llm
\* returns the fallback
LoadModelFails ==
    /\ llm_pc = "start"
    /\ tokenizer' \in {"None", "set"}
    /\ model' = "None"
    /\ is_loaded' = FALSE
    /\ failures' = failures \cup {"load"}
    /\ llm_result' = _generate_fallback_readme
    /\ llm_pc' = "returned"
    /\ UNCHANGED <<llm_prompts, max_tokens, chunk_i, chunk_responses,
                   max_new_tokens, retries>>
    /\ UNCHANGED <<validateVars, repairVars, cleanVars, chunkVars, writerVars>>
    /\ UNCHANGED sysVars

\* get_model_info returns; generate_in_chunks starts on the first prompt
GetModelInfo ==
    /\ llm_pc = "loaded"
    /\ llm_pc' = "generating"
    /\ NextPrompt
    /\ UNCHANGED <<llm_prompts, max_tokens, tokenizer, model, is_loaded,
                   chunk_responses, llm_result, failures>>
    /\ UNCHANGED <<validateVars, repairVars, cleanVars, chunkVars, writerVars>>
    /\ UNCHANGED sysVars

\* get_model_info raises inside the with block: __exit__ unloads the model
\* and generate_with_llm returns the fallback
GetModelInfoRaises ==
    /\ llm_pc = "loaded"
    /\ UnloadModel
    /\ failures' = failures \cup {"scope"}
    /\ llm_result' = _generate_fallback_readme
    /\ llm_pc' = "returned"
    /\ UNCHANGED <<llm_prompts, max_tokens, chunk_i, chunk_responses,
                   max_new_tokens, retries>>
    /\ UNCHANGED <<validateVars, repairVars, cleanVars, chunkVars, writerVars>>
    /\ UNCHANGED sysVars

\* generate_response returns the generated text
GenerateResponse ==
    /\ llm_pc = "generating"
    /\ chunk_i <= Len(llm_prompts)
    /\ chunk_responses' = Append(chunk_responses, Generated(chunk_i))
    /\ NextPrompt
    /\ UNCHANGED <<llm_prompts, max_tokens, tokenizer, model, is_loaded, llm_pc,
                   llm_result, failures>>
    /\ UNCHANGED <<validateVars, repairVars, cleanVars, chunkVars, writerVars>>
    /\ UNCHANGED sysVars

\* generation raises an Exception and the prompt gets no response at all
GenerateResponseError_drop ==
    /\ llm_pc = "generating"
    /\ chunk_i <= Len(llm_prompts)
    /\ failures' = failures \cup {"generation"}
    /\ NextPrompt
    /\ UNCHANGED <<llm_prompts, max_tokens, tokenizer, model, is_loaded, llm_pc,
                   chunk_responses, llm_result>>
    /\ UNCHANGED <<validateVars, repairVars, cleanVars, chunkVars, writerVars>>
    /\ UNCHANGED sysVars

\* generation raises an Exception: generate_response returns the error text
\* of line 174 and generate_in_chunks appends it
GenerateResponseError ==
    /\ llm_pc = "generating"
    /\ chunk_i <= Len(llm_prompts)
    /\ chunk_responses' = Append(chunk_responses, ErrorGenerating(chunk_i))
    /\ failures' = failures \cup {"generation"}
    /\ NextPrompt
    /\ UNCHANGED <<llm_prompts, max_tokens, tokenizer, model, is_loaded, llm_pc,
                   llm_result>>
    /\ UNCHANGED <<validateVars, repairVars, cleanVars, chunkVars, writerVars>>
    /\ UNCHANGED sysVars

\* generation raises OutOfMemoryError: generate_response calls itself with
\* max_new_tokens // 2
GenerateResponseOom ==
    /\ llm_pc = "generating"
    /\ chunk_i <= Len(llm_prompts)
    /\ retries < MaxRetries
    /\ max_new_tokens' = EnterTokens(max_new_tokens \div 2, max_tokens)
    /\ retries' = retries + 1
    /\ failures' = failures \cup {"oom"}
    /\ UNCHANGED <<llm_prompts, max_tokens, tokenizer, model, is_loaded, llm_pc,
                   chunk_i, chunk_responses, llm_result>>
    /\ UNCHANGED <<validateVars, repairVars, cleanVars, chunkVars, writerVars>>
    /\ UNCHANGED sysVars

\* OutOfMemoryError at the deepest call the interpreter allows: the call of
\* line 170 raises RecursionError, no handler of generate_response catches
\* it, and generate_in_chunks appends the error text of line 231
GenerateResponseTooDeep ==
    /\ llm_pc = "generating"
    /\ chunk_i <= Len(llm_prompts)
    /\ retries = MaxRetries
    /\ chunk_responses' = Append(chunk_responses, ErrorProcessing(chunk_i))
    /\ failures' = failures \cup {"generation"}
    /\ NextPrompt
    /\ UNCHANGED <<llm_prompts, max_tokens, tokenizer, model, is_loaded, llm_pc,
                   llm_result>>
    /\ UNCHANGED <<validateVars, repairVars, cleanVars, chunkVars, writerVars>>
    /\ UNCHANGED sysVars

\* generate_in_chunks returns; __exit__ unloads the model; generate_with_llm
\* returns the responses
ReturnResponses ==
    /\ llm_pc = "generating"
    /\ chunk_i > Len(llm_prompts)
    /\ UnloadModel
    /\ llm_result' = chunk_responses
    /\ llm_pc' = "returned"
    /\ UNCHANGED <<llm_prompts, max_tokens, chunk_i, chunk_responses,
                   max_new_tokens, retries, failures>>
    /\ UNCHANGED <<validateVars, repairVars, cleanVars, chunkVars, writerVars>>
    /\ UNCHANGED sysVars

NextLlm ==
    \/ LoadModel
    \/ LoadModelFails
    \/ GetModelInfo
    \/ GetModelInfoRaises
    \/ GenerateResponse
    \/ GenerateResponseError
    \/ GenerateResponseOom
    \/ GenerateResponseTooDeep
    \/ ReturnResponses

SpecLlm == InitLlm /\ [][NextLlm]_vars

----------------------------------------------------------------------------
(* MarkdownWriter.write_to_file and the files it writes.  A file is known  *)
(* by whether it exists and by the text it holds.                          *)

MaxWrites == 3
MaxPartial == 2

Paths == {"README.md", "custom_readme.md"}

NoFile == [exists |-> FALSE, data |-> <<>>]

\* open(filepath, 'w') in append mode instead: what the file holds stays
OpenForWriting_append(file) == [exists |-> TRUE, data |-> file.data]

\* open(filepath, 'w'): the file is created, or cut to nothing
OpenForWriting(file) == [exists |-> TRUE, data |-> <<>>]

\* f.write(data) on a file opened at its end
FileWrite(file, data) == [file EXCEPT !.data = @ \o data]

\* the beginnings of a text that a write cut short may leave, up to
\* MaxPartial characters long
ProperPrefixes(t) ==
    {SubSeq(t, 1, n) : n \in 0..(IF Len(t) - 1 < MaxPartial THEN Len(t) - 1
                                                            ELSE MaxPartial)}

\* one call as write_log keeps it: ok is FALSE when the call raised
WriteCall(c, p, ok) == [content |-> c, filepath |-> p, ok |-> ok]

\* write_to_file(c, p) returns: the file is opened, written and closed
WriteSucceeds(c, p) ==
    /\ files' = [files EXCEPT ![p] = FileWrite(OpenForWriting(@), c)]
    /\ write_log' = Append(write_log, WriteCall(c, p, TRUE))

\* write_to_file(c, p) raises because open does: the file is as it was
OpenFails(c, p) ==
    /\ files' = files
    /\ write_log' = Append(write_log, WriteCall(c, p, FALSE))

\* write_to_file(c, p) raises because f.write does: the file is opened and
\* holds some beginning of the text
WriteFails(c, p) ==
    /\ c # <<>>
    /\ \E part \in ProperPrefixes(c) :
          files' = [files EXCEPT ![p] = FileWrite(OpenForWriting(@), part)]
    /\ write_log' = Append(write_log, WriteCall(c, p, FALSE))

\* the texts written in the machine of write_to_file alone
WriteContents == { <<>>, <<"#", SP, "T">>, <<"b">> }

InitWrite ==
    /\ files \in [Paths -> {NoFile, FileWrite(OpenForWriting(NoFile), <<"o", "l", "d">>)}]
    /\ write_log = <<>>
    /\ AnalyzeIdle
    /\ RunIdle
    /\ ValidateIdle
    /\ RepairIdle
    /\ CleanIdle
    /\ LlmIdle
    /\ ChunkIdle
    /\ WriterIdle

WriteToFile ==
    /\ Len(write_log) < MaxWrites
    /\ \E c \in WriteContents, p \in Paths : WriteSucceeds(c, p)
    /\ UNCHANGED <<analyzeVars, runVars, validateVars, repairVars, cleanVars,
                   llmVars, chunkVars, writerVars>>

WriteToFileRaises ==
    /\ Len(write_log) < MaxWrites
    /\ \E c \in WriteContents, p \in Paths : OpenFails(c, p) \/ WriteFails(c, p)
    /\ UNCHANGED <<analyzeVars, runVars, validateVars, repairVars, cleanVars,
                   llmVars, chunkVars, writerVars>>

NextWrite == WriteToFile \/ WriteToFileRaises

SpecWrite == InitWrite /\ [][NextWrite]_vars

----------------------------------------------------------------------------
(* RepoWhisperer.analyze_project as a state machine.  A file is known by   *)
(* its place in the sorted list walk_project returns and by what happens   *)
(* when parse_file is called on it.                                        *)

MaxShortList == 2

\* the 50 of file_paths[:50]
ParseLimit == 50

\* what parse_file does on a file: it extracts the structure, it cannot read
\* the file, ast.parse rejects the file, or it raises
FileKinds == {"parsed", "unreadable", "syntax error", "raises"}

\* parse_file on the file numbered k: the structures it returns, none when
\* it raises.  An unreadable file comes back as a structure with nothing in
\* it, a file with a syntax error as one with its raw content only
parse_file(kind, k) ==
    CASE kind = "parsed" -> <<[filepath |-> k, holds |-> "structure"]>>
      [] kind = "unreadable" -> <<[filepath |-> k, holds |-> "nothing"]>>
      [] kind = "syntax error" -> <<[filepath |-> k, holds |-> "raw content"]>>
      [] kind = "raises" -> <<>>

\* short lists of every make-up, and lists one longer than the limit with
\* one file of any kind at the start, at the limit, or past it
FileLists ==
    UNION {[1..n -> FileKinds] : n \in 0..MaxShortList}
        \cup {[k \in 1..(ParseLimit + 1) |-> IF k = at THEN kind ELSE "parsed"] :
                 at \in {1, ParseLimit, ParseLimit + 1}, kind \in FileKinds}

\* the files the loop goes over: file_paths[:50]
LastParsed == IF Len(file_paths) < ParseLimit THEN Len(file_paths) ELSE ParseLimit

InitAnalyze ==
    /\ path_exists \in BOOLEAN
    /\ file_paths \in FileLists
    /\ parse_i = 0
    /\ structures = <<>>
    /\ analyze_pc = "start"
    /\ RunIdle
    /\ WriteIdle
    /\ ValidateIdle
    /\ RepairIdle
    /\ CleanIdle
    /\ LlmIdle
    /\ ChunkIdle
    /\ WriterIdle

\* lines 100-101: the project path does not exist
AnalyzeMissingPath ==
    /\ analyze_pc = "start"
    /\ ~path_exists
    /\ analyze_pc' = "raised"
    /\ UNCHANGED <<path_exists, file_paths, parse_i, structures>>
    /\ UNCHANGED <<runVars, writeVars, validateVars, repairVars, cleanVars,
                   llmVars, chunkVars, writerVars>>

\* lines 108-110: walk_project found no file
AnalyzeNoFiles ==
    /\ analyze_pc = "start"
    /\ path_exists
    /\ file_paths = <<>>
    /\ analyze_pc' = "returned"
    /\ UNCHANGED <<path_exists, file_paths, parse_i, structures>>
    /\ UNCHANGED <<runVars, writeVars, validateVars, repairVars, cleanVars,
                   llmVars, chunkVars, writerVars>>

\* lines 104-114: walk_project found files and the loop starts
AnalyzeWalk ==
    /\ analyze_pc = "start"
    /\ path_exists
    /\ file_paths # <<>>
    /\ analyze_pc' = "parsing"
    /\ parse_i' = 1
    /\ UNCHANGED <<path_exists, file_paths, structures>>
    /\ UNCHANGED <<runVars, writeVars, validateVars, repairVars, cleanVars,
                   llmVars, chunkVars, writerVars>>

\* one pass of the loop of lines 116-123
ParseFile ==
    /\ analyze_pc = "parsing"
    /\ parse_i <= LastParsed
    /\ structures' = structures \o parse_file(file_paths[parse_i], parse_i)
    /\ parse_i' = parse_i + 1
    /\ UNCHANGED <<path_exists, file_paths, analyze_pc>>
    /\ UNCHANGED <<runVars, writeVars, validateVars, repairVars, cleanVars,
                   llmVars, chunkVars, writerVars>>

\* lines 125-126: the loop is over
AnalyzeReturn ==
    /\ analyze_pc = "parsing"
    /\ parse_i > LastParsed
    /\ analyze_pc' = "returned"
    /\ UNCHANGED <<path_exists, file_paths, parse_i, structures>>
    /\ UNCHANGED <<runVars, writeVars, validateVars, repairVars, cleanVars,
                   llmVars, chunkVars, writerVars>>

NextAnalyze ==
    \/ AnalyzeMissingPath
    \/ AnalyzeNoFiles
    \/ AnalyzeWalk
    \/ ParseFile
    \/ AnalyzeReturn

SpecAnalyze == InitAnalyze /\ [][NextAnalyze]_vars

----------------------------------------------------------------------------
(* The texts of the responses generate_with_llm returns.                   *)

\* the template of _generate_fallback_readme, lines 184-211
FallbackTemplate == <<
    "#", SP, "P", "r", "o", "j", "e", "c", "t", SP, "R", "E", "A", "D", "M",
    "E", NL, NL, "T", "h", "i", "s", SP, "R", "E", "A", "D", "M", "E", SP,
    "w", "a", "s", SP, "g", "e", "n", "e", "r", "a", "t", "e", "d", SP, "w",
    "h", "e", "n", SP, "t", "h", "e", SP, "A", "I", SP, "m", "o", "d", "e",
    "l", SP, "w", "a", "s", SP, "u", "n", "a", "v", "a", "i", "l", "a", "b",
    "l", "e", ".", NL, NL, "#", "#", SP, "A", "b", "o", "u", "t", NL, "T",
    "h", "i", "s", SP, "p", "r", "o", "j", "e", "c", "t", SP, "c", "o", "n",
    "t", "a", "i", "n", "s", SP, "s", "o", "u", "r", "c", "e", SP, "c", "o",
    "d", "e", SP, "t", "h", "a", "t", SP, "n", "e", "e", "d", "s", SP, "d",
    "o", "c", "u", "m", "e", "n", "t", "a", "t", "i", "o", "n", ".", NL, NL,
    "#", "#", SP, "I", "n", "s", "t", "a", "l", "l", "a", "t", "i", "o", "n",
    NL, BT, BT, BT, "b", "a", "s", "h", NL, "#", SP, "A", "d", "d", SP, "i",
    "n", "s", "t", "a", "l", "l", "a", "t", "i", "o", "n", SP, "i", "n", "s",
    "t", "r", "u", "c", "t", "i", "o", "n", "s", SP, "h", "e", "r", "e", NL,
    "p", "i", "p", SP, "i", "n", "s", "t", "a", "l", "l", SP, "-", "r", SP,
    "r", "e", "q", "u", "i", "r", "e", "m", "e", "n", "t", "s", ".", "t",
    "x", "t", NL, BT, BT, BT, NL, NL, "#", "#", SP, "U", "s", "a", "g", "e",
    NL, BT, BT, BT, "b", "a", "s", "h", NL, "#", SP, "A", "d", "d", SP, "u",
    "s", "a", "g", "e", SP, "e", "x", "a", "m", "p", "l", "e", "s", SP, "h",
    "e", "r", "e", NL, "p", "y", "t", "h", "o", "n", SP, "m", "a", "i", "n",
    ".", "p", "y", NL, BT, BT, BT, NL, NL, "#", "#", SP, "S", "t", "r", "u",
    "c", "t", "u", "r", "e", NL, "T", "h", "e", SP, "p", "r", "o", "j", "e",
    "c", "t", SP, "c", "o", "n", "t", "a", "i", "n", "s", SP, "m", "u", "l",
    "t", "i", "p", "l", "e", SP, "s", "o", "u", "r", "c", "e", SP, "f", "i",
    "l", "e", "s", SP, "o", "r", "g", "a", "n", "i", "z", "e", "d", SP, "i",
    "n", SP, "a", SP, "s", "t", "r", "u", "c", "t", "u", "r", "e", "d", SP,
    "m", "a", "n", "n", "e", "r", ".", NL, NL, "#", "#", SP, "C", "o", "n",
    "t", "r", "i", "b", "u", "t", "i", "n", "g", NL, "C", "o", "n", "t", "r",
    "i", "b", "u", "t", "i", "o", "n", "s", SP, "a", "r", "e", SP, "w", "e",
    "l", "c", "o", "m", "e", "!", SP, "P", "l", "e", "a", "s", "e", SP, "f",
    "e", "e", "l", SP, "f", "r", "e", "e", SP, "t", "o", SP, "s", "u", "b",
    "m", "i", "t", SP, "a", SP, "P", "u", "l", "l", SP, "R", "e", "q", "u",
    "e", "s", "t", ".", NL, NL, "#", "#", SP, "L", "i", "c", "e", "n", "s",
    "e", NL, "P", "l", "e", "a", "s", "e", SP, "c", "h", "e", "c", "k", SP,
    "t", "h", "e", SP, "p", "r", "o", "j", "e", "c", "t", SP, "f", "o", "r",
    SP, "l", "i", "c", "e", "n", "s", "e", SP, "i", "n", "f", "o", "r", "m",
    "a", "t", "i", "o", "n", ".", NL >>

\* f"Error generating response: {str(e)}" for an exception whose text is e
ErrorGeneratingText == <<
    "E", "r", "r", "o", "r", SP, "g", "e", "n", "e", "r", "a", "t", "i", "n",
    "g", SP, "r", "e", "s", "p", "o", "n", "s", "e", ":", SP, "e" >>

\* f"Error processing chunk: {str(e)}" for an exception whose text is e
ErrorProcessingText == <<
    "E", "r", "r", "o", "r", SP, "p", "r", "o", "c", "e", "s", "s", "i", "n",
    "g", SP, "c", "h", "u", "n", "k", ":", SP, "e" >>

\* what the model may generate: a titled text, a heading without its space,
\* the same followed by a fence left open
GeneratedTexts == {
    <<"#", SP, "T", NL, "b">>,
    <<"#", "a">>,
    <<"#", "a", NL>> \o FENCE }

\* the texts a response of a kind may be
TextsOf(r) ==
    CASE r.kind = "generated" -> GeneratedTexts
      [] r.kind = "Error generating response" -> {ErrorGeneratingText}
      [] r.kind = "Error processing chunk" -> {ErrorProcessingText}
      [] r.kind = "fallback template" -> {FallbackTemplate}

\* the lists of texts a list of responses may be
ResponseTextLists(result) ==
    {t \in [DOMAIN result ->
               GeneratedTexts \cup {ErrorGeneratingText, ErrorProcessingText,
                                    FallbackTemplate}] :
        \A k \in DOMAIN result : t[k] \in TextsOf(result[k])}

----------------------------------------------------------------------------
(* RepoWhisperer.generate_readme as a state machine, with main() reporting *)
(* on it.  analyze_project and generate_with_llm run as the machines       *)
(* above; the document is assembled, validated and written with the        *)
(* operators of MarkdownWriter.                                            *)

\* the projects of a run: none, one file that parses, one that cannot be
\* read, one on which parse_file raises
RunFileLists == { <<>>, <<"parsed">>, <<"unreadable">>, <<"raises">> }

InitRun ==
    /\ run_pc = "start"
    /\ prompts_built = FALSE
    /\ main_status = "none"
    /\ path_exists \in BOOLEAN
    /\ file_paths \in RunFileLists
    /\ parse_i = 0
    /\ structures = <<>>
    /\ analyze_pc = "idle"
    /\ files = [p \in Paths |-> NoFile]
    /\ write_log = <<>>
    /\ llm_prompts = <<>>
    /\ max_tokens \in MaxTokensValues
    /\ tokenizer = "None"
    /\ model = "None"
    /\ is_loaded = FALSE
    /\ llm_pc = "idle"
    /\ chunk_i = 0
    /\ chunk_responses = <<>>
    /\ max_new_tokens = 0
    /\ retries = 0
    /\ llm_result = <<>>
    /\ failures = {}
    /\ llm_responses = <<>>
    /\ project_name = <<"p">>
    /\ merged = <<>>
    /\ merge_done = FALSE
    /\ main_content = <<>>
    /\ final_readme = <<>>
    /\ readme_done = FALSE
    /\ issues = <<>>
    /\ validated = FALSE
    /\ ValidateIdle
    /\ RepairIdle
    /\ CleanIdle
    /\ ChunkIdle

\* line 218: analyze_project is called
RunAnalyze ==
    /\ run_pc = "start"
    /\ run_pc' = "analyzing"
    /\ analyze_pc' = "start"
    /\ UNCHANGED <<path_exists, file_paths, parse_i, structures, prompts_built,
                   main_status>>
    /\ UNCHANGED <<writeVars, llmVars, writerVars, validateVars, repairVars,
                   cleanVars, chunkVars>>

\* analyze_project raised: lines 250-253 print and raise again
RunAnalysisRaised ==
    /\ run_pc = "analyzing"
    /\ analyze_pc = "raised"
    /\ run_pc' = "raised"
    /\ UNCHANGED <<analyzeVars, prompts_built, main_status>>
    /\ UNCHANGED <<writeVars, llmVars, writerVars, validateVars, repairVars,
                   cleanVars, chunkVars>>

\* lines 220-221: no structures, ValueError; lines 250-253 raise it again
RunNoStructures ==
    /\ run_pc = "analyzing"
    /\ analyze_pc = "returned"
    /\ structures = <<>>
    /\ run_pc' = "raised"
    /\ UNCHANGED <<analyzeVars, prompts_built, main_status>>
    /\ UNCHANGED <<writeVars, llmVars, writerVars, validateVars, repairVars,
                   cleanVars, chunkVars>>

\* generate_prompts without the test of lines 220-221 before it
GeneratePrompts_unguarded ==
    /\ run_pc = "analyzing"
    /\ analyze_pc = "returned"
    /\ prompts_built' = TRUE
    /\ llm_prompts' \in {[k \in 1..n |-> k] : n \in 1..MaxPrompts}
    /\ llm_pc' = "start"
    /\ run_pc' = "generating"
    /\ UNCHANGED <<analyzeVars, main_status>>
    /\ UNCHANGED <<max_tokens, tokenizer, model, is_loaded, chunk_i,
                   chunk_responses, max_new_tokens, retries, llm_result,
                   failures>>
    /\ UNCHANGED <<writeVars, writerVars, validateVars, repairVars, cleanVars,
                   chunkVars>>

\* lines 223-227: generate_prompts returns the chunks of the prompts, and
\* generate_with_llm is called on them
GeneratePrompts ==
    /\ run_pc = "analyzing"
    /\ analyze_pc = "returned"
    /\ structures # <<>>
    /\ prompts_built' = TRUE
    /\ llm_prompts' \in {[k \in 1..n |-> k] : n \in 1..MaxPrompts}
    /\ llm_pc' = "start"
    /\ run_pc' = "generating"
    /\ UNCHANGED <<analyzeVars, main_status>>
    /\ UNCHANGED <<max_tokens, tokenizer, model, is_loaded, chunk_i,
                   chunk_responses, max_new_tokens, retries, llm_result,
                   failures>>
    /\ UNCHANGED <<writeVars, writerVars, validateVars, repairVars, cleanVars,
                   chunkVars>>

\* lines 229-233: generate_with_llm has returned and
\* markdown_writer.generate_readme assembles the document
RunAssemble ==
    /\ run_pc = "generating"
    /\ llm_pc = "returned"
    /\ llm_responses' \in ResponseTextLists(llm_result)
    /\ main_content' = MainContent(llm_responses')
    /\ \E timestamp \in Timestamps :
          final_readme' = AssembleReadme(main_content', project_name, timestamp)
    /\ readme_done' = TRUE
    /\ run_pc' = "assembled"
    /\ UNCHANGED <<project_name, merged, merge_done, issues, validated>>
    /\ UNCHANGED <<analyzeVars, prompts_built, main_status>>
    /\ UNCHANGED <<writeVars, llmVars, validateVars, repairVars, cleanVars,
                   chunkVars>>

\* validate_markdown, and the run given up when there are issues
RunValidate_blocking ==
    /\ run_pc = "assembled"
    /\ issues' = validate_markdown(final_readme)
    /\ validated' = TRUE
    /\ run_pc' = (IF issues' = <<>> THEN "validated" ELSE "raised")
    /\ UNCHANGED <<llm_responses, project_name, merged, merge_done, main_content,
                   final_readme, readme_done>>
    /\ UNCHANGED <<analyzeVars, prompts_built, main_status>>
    /\ UNCHANGED <<writeVars, llmVars, validateVars, repairVars, cleanVars,
                   chunkVars>>

\* lines 235-240: validate_markdown, and the issues are printed
RunValidate ==
    /\ run_pc = "assembled"
    /\ issues' = validate_markdown(final_readme)
    /\ validated' = TRUE
    /\ run_pc' = "validated"
    /\ UNCHANGED <<llm_responses, project_name, merged, merge_done, main_content,
                   final_readme, readme_done>>
    /\ UNCHANGED <<analyzeVars, prompts_built, main_status>>
    /\ UNCHANGED <<writeVars, llmVars, validateVars, repairVars, cleanVars,
                   chunkVars>>

\* lines 242-248: write_to_file returns and generate_readme returns
RunWrite ==
    /\ run_pc = "validated"
    /\ \E p \in Paths : WriteSucceeds(final_readme, p)
    /\ run_pc' = "returned"
    /\ UNCHANGED <<analyzeVars, prompts_built, main_status>>
    /\ UNCHANGED <<llmVars, writerVars, validateVars, repairVars, cleanVars,
                   chunkVars>>

\* write_to_file raises and generate_readme returns all the same
RunWriteRaises_swallowed ==
    /\ run_pc = "validated"
    /\ \E p \in Paths : OpenFails(final_readme, p) \/ WriteFails(final_readme, p)
    /\ run_pc' = "returned"
    /\ UNCHANGED <<analyzeVars, prompts_built, main_status>>
    /\ UNCHANGED <<llmVars, writerVars, validateVars, repairVars, cleanVars,
                   chunkVars>>

\* write_to_file raises (lines 293-295 of markdown_writer.py) and lines
\* 250-253 raise again
RunWriteRaises ==
    /\ run_pc = "validated"
    /\ \E p \in Paths : OpenFails(final_readme, p) \/ WriteFails(final_readme, p)
    /\ run_pc' = "raised"
    /\ UNCHANGED <<analyzeVars, prompts_built, main_status>>
    /\ UNCHANGED <<llmVars, writerVars, validateVars, repairVars, cleanVars,
                   chunkVars>>

\* main(): lines 352-365 after generate_readme returned, lines 370-374 after
\* it raised
MainReports ==
    /\ run_pc \in {"returned", "raised"}
    /\ main_status = "none"
    /\ main_status' = (IF run_pc = "returned" THEN "succeeded" ELSE "failed")
    /\ UNCHANGED <<analyzeVars, run_pc, prompts_built>>
    /\ UNCHANGED <<writeVars, llmVars, writerVars, validateVars, repairVars,
                   cleanVars, chunkVars>>

NextRun ==
    \/ RunAnalyze
    \/ NextAnalyze
    \/ RunAnalysisRaised
    \/ RunNoStructures
    \/ GeneratePrompts
    \/ NextLlm
    \/ RunAssemble
    \/ RunValidate
    \/ RunWrite
    \/ RunWriteRaises
    \/ MainReports

SpecRun == InitRun /\ [][NextRun]_vars

----------------------------------------------------------------------------
(* Claims about chunk_prompt.                                              *)

\* C1: joining the chunks with single spaces and splitting the result on
\* whitespace gives exactly the whitespace-delimited words of the prompt, in
\* order: no word is lost, duplicated, split or reordered.
C1_WordsPreserved ==
    chunked => Split(JoinWith(<<SP>>, chunks)) = Split(prompt)

\* a prompt too long for one chunk, with a newline or a doubled separator in
\* it, cut into several chunks
C1_Witness ==
    /\ chunked
    /\ Len(prompt) > max_chunk_size
    /\ Len(chunks) >= 2
    /\ \E k \in 1..(Len(prompt) - 1) : IsSpace(prompt[k]) /\ IsSpace(prompt[k + 1])
    /\ \E k \in 1..Len(chunks) : Len(Split(chunks[k])) >= 2

\* C2: every chunk is at most max_chunk_size long, except a chunk that is
\* exactly one word which is itself longer than max_chunk_size.
C2_ChunkBound ==
    chunked =>
        \A k \in 1..Len(chunks) :
            \/ Len(chunks[k]) <= max_chunk_size
            \/ Split(chunks[k]) = <<chunks[k]>>

\* an over-long word emitted alone beside a chunk that packs two words
C2_Witness ==
    /\ chunked
    /\ \E k \in 1..Len(chunks) : Len(chunks[k]) > max_chunk_size
    /\ \E k \in 1..Len(chunks) :
          Len(Split(chunks[k])) >= 2 /\ Len(chunks[k]) = max_chunk_size

\* C3: a prompt no longer than max_chunk_size comes back as the only chunk,
\* character for character.
C3_ShortPromptVerbatim ==
    (chunked /\ Len(prompt) <= max_chunk_size) => chunks = <<prompt>>

\* a short prompt whose spacing differs from the single-space form
C3_Witness ==
    /\ chunked
    /\ Len(prompt) <= max_chunk_size
    /\ Len(Split(prompt)) >= 2
    /\ JoinWith(<<SP>>, Split(prompt)) # prompt

\* C4 as amended: the empty prompt comes back as one chunk, the empty text.
C4_EmptyPromptOneEmptyChunk ==
    (chunked /\ prompt = <<>>) => chunks = << <<>> >>

\* C4 as stated: chunk_prompt of the empty prompt returns no chunk at all.
C4_EmptyPromptNoChunk ==
    (chunked /\ prompt = <<>>) => chunks = <<>>

\* chunk_prompt has run on the empty prompt
C4_Witness ==
    chunked /\ prompt = <<>> /\ Len(chunks) = 1

----------------------------------------------------------------------------
(* Claims about merge_responses, generate_readme and validate_markdown.    *)

\* the lines of a text
LinesOf(text) == SplitOn(text, NL)

\* a second-level heading line: ## and then a whitespace character
IsH2Line(line) == StartsWith(line, H2) /\ Len(line) >= 3 /\ IsSpace(line[3])

\* the second-level heading lines of a text
H2LinesOf(text) ==
    {LinesOf(text)[j] : j \in {i \in 1..Len(LinesOf(text)) : IsH2Line(LinesOf(text)[i])}}

\* the lines of the merged body that come after as many lines as the first
\* cleaned response has
MergedTail ==
    {LinesOf(merged)[j] :
        j \in (Len(LinesOf(clean_llm_response(llm_responses[1]))) + 1)
                  ..Len(LinesOf(merged))}

\* C5: with two or more responses, every second-level heading of a later
\* response is in the merged body, after the first response's content.
C5_HeadingSectionsMerged ==
    (merge_done /\ Len(llm_responses) >= 2) =>
        \A k \in 2..Len(llm_responses) :
            \A h \in H2LinesOf(clean_llm_response(llm_responses[k])) :
                \E line \in MergedTail : Contains(line, h)

\* C6: a later response with no second-level heading line is appended whole
\* and as it is, after a blank line.
C6_PlainResponseAppended ==
    (/\ merge_done
     /\ Len(llm_responses) = 2
     /\ H2LinesOf(clean_llm_response(llm_responses[2])) = {}) =>
        merged = _fix_markdown_formatting(
                     clean_llm_response(llm_responses[1]) \o <<NL, NL>>
                         \o clean_llm_response(llm_responses[2]))

\* the segments merge_responses appends from a response split at its
\* second-level headings: the non-blank ones after the first
AppendedSegments(cleaned) ==
    {SplitAtH2(cleaned)[j] :
        j \in {i \in 2..Len(SplitAtH2(cleaned)) : ~IsBlank(SplitAtH2(cleaned)[i])}}

\* C7: the heading line of every appended segment stands in the merged body
\* as it stood in the cleaned response, with its ## marker once.
C7_SegmentHeadingOnce ==
    (merge_done /\ Len(llm_responses) = 2) =>
        \A seg \in AppendedSegments(clean_llm_response(llm_responses[2])) :
            LinesOf(seg)[1] \in MergedTail

\* C8: for a single response r, merge_responses([r]) is clean_llm_response(r),
\* and so is the body generate_readme builds from [r].
C8_SingleResponseIdentity ==
    Len(llm_responses) = 1 =>
        /\ merge_done => merged = clean_llm_response(llm_responses[1])
        /\ readme_done => main_content = clean_llm_response(llm_responses[1])

\* C9: the first line of the text generate_readme returns is a level-1
\* heading: one # and then a whitespace character.
C9_StartsWithLevel1Heading ==
    readme_done =>
        /\ Len(LinesOf(final_readme)[1]) >= 2
        /\ LinesOf(final_readme)[1][1] = "#"
        /\ IsSpace(LinesOf(final_readme)[1][2])

\* C10: the text generate_readme returns starts with the character #, and
\* validate_markdown of it never reports the missing main title.
C10_NoMissingTitle ==
    /\ readme_done => StartsWith(final_readme, <<"#">>)
    /\ validated => \A k \in 1..Len(issues) : issues[k] # MissingTitleIssue

\* a body without a heading at its start got the synthesized title, and the
\* validation of the result still found something to report
C10_Witness ==
    /\ validated
    /\ llm_responses # <<>>
    /\ ~StartsWith(main_content, <<"#">>)
    /\ issues # <<>>

----------------------------------------------------------------------------
(* Claims about validate_markdown.                                         *)

Reported(issue, list) == \E k \in DOMAIN list : list[k] = issue

\* a level-1 heading line: a single # followed by whitespace
IsLevel1Heading(line) ==
    Len(line) >= 2 /\ line[1] = "#" /\ IsSpace(line[2])

\* C11: for every non-blank document whose first line is not a level-1
\* heading, the issues validate_markdown returns contain the missing main
\* title issue.
C11_MissingTitleReported ==
    (/\ document_checked
     /\ ~IsBlank(document)
     /\ ~IsLevel1Heading(LinesOf(document)[1]))
        => Reported(MissingTitleIssue, document_issues)

\* a line that starts with # markers, goes on after them, and has no space
\* directly after them
MarkersWithoutSpace(line) ==
    LET h == RunLen(line, 1, "hash")
    IN  h >= 1 /\ h < Len(line) /\ line[h + 1] # SP

\* C12: validate_markdown reports a malformed header issue with the number
\* of a line exactly when that line starts with # markers that are not
\* directly followed by a space; a line of markers only gets none.
C12_MalformedExactly ==
    (document_checked /\ ~IsBlank(document)) =>
        \A i \in DOMAIN LinesOf(document) :
            Reported(MalformedIssue(i), document_issues)
                <=> MarkersWithoutSpace(LinesOf(document)[i])

\* a bare fence line: three backticks and nothing else, whitespace around
\* them aside
IsBareFence(line) == Strip(line) = FENCE

\* the bare fence lines of a document that no bare fence line follows
OpenFences(doc) ==
    LET lines == LinesOf(doc)
    IN  {i \in DOMAIN lines :
            /\ IsBareFence(lines[i])
            /\ \A j \in (i + 1)..Len(lines) : ~IsBareFence(lines[j])}

\* C13: for every bare fence line that no bare fence line follows later in
\* the document, validate_markdown reports an unclosed code block issue
\* carrying that line's 1-based number.
C13_UnclosedReported ==
    document_checked =>
        \A i \in OpenFences(document) :
            Reported(UnclosedIssue(i), document_issues)

\* the document # T / FENCE / b has been validated and line 2 is reported
C13_Witness ==
    /\ document_checked
    /\ document = <<"#", SP, "T", NL>> \o FENCE \o <<NL, "b">>
    /\ OpenFences(document) = {2}
    /\ Reported(UnclosedIssue(2), document_issues)

----------------------------------------------------------------------------
(* Claims about _fix_markdown_formatting.                                  *)

\* C14: the repair pass is idempotent: run on its own output it returns
\* that output unchanged.
C14_RepairIdempotent ==
    repair_calls = 2 => repaired = repair_input

\* the numbers of the lines that start with a fence, in order
FenceLineSet(lines) == {i \in DOMAIN lines : StartsWith(lines[i], FENCE)}

RECURSIVE Ascending(_)
Ascending(S) ==
    IF S = {} THEN <<>> ELSE <<SetMin(S)>> \o Ascending(S \ {SetMin(S)})

\* the contents of the terminated fenced blocks of a text: the lines between
\* the 1st and 2nd fence line, between the 3rd and 4th, and so on
ClosedBlocks(t) ==
    LET lines == LinesOf(t)
        f == Ascending(FenceLineSet(lines))
    IN  [k \in 1..(Len(f) \div 2) |->
            SubSeq(lines, f[2 * k - 1] + 1, f[2 * k] - 1)]

\* C15: the repair pass never alters content inside a fenced code block: the
\* lines between an opening fence and its closing fence are the same before
\* and after the pass.
C15_CodeBlocksUnaltered ==
    repair_calls >= 1 => ClosedBlocks(repaired) = ClosedBlocks(repair_input)

FenceCount(t) == Cardinality(FenceLineSet(LinesOf(t)))

\* C16: the repair pass never invents a fence: its output has as many lines
\* starting with a triple backtick as its input.
C16_NoFenceInvented ==
    repair_calls >= 1 => FenceCount(repaired) = FenceCount(repair_input)

\* the pass has changed a text whose only fence is left open
C16_Witness ==
    /\ repair_calls = 1
    /\ repair_input = <<"b", NL, "#", SP, "T", NL, "b", NL>> \o FENCE
    /\ repaired # repair_input
    /\ FenceCount(repaired) = 1

\* C17: in the output of the repair pass every heading line that is
\* followed by further text is followed by exactly one blank line.
C17_HeadingThenOneBlank ==
    repair_calls >= 1 =>
        LET lines == LinesOf(repaired)
        IN  \A i \in DOMAIN lines :
                (/\ MatchesHeader(lines[i])
                 /\ \E j \in (i + 1)..Len(lines) : ~IsBlank(lines[j]))
                    => /\ IsBlank(lines[i + 1])
                       /\ i + 2 <= Len(lines)
                       /\ ~IsBlank(lines[i + 2])

----------------------------------------------------------------------------
(* Claims about clean_llm_response.                                        *)

\* C18: what clean_llm_response returns neither begins with one of the
\* known prefixes nor ends with one of the known suffixes, in whatever order
\* or combination they stand at the start and the end of the response.
C18_NoBoilerplateLeft ==
    clean_done =>
        /\ \A k \in DOMAIN prefixes_to_remove :
              ~StartsWith(cleaned_response, prefixes_to_remove[k])
        /\ \A k \in DOMAIN suffixes_to_remove :
              ~EndsWith(cleaned_response, suffixes_to_remove[k])

----------------------------------------------------------------------------
(* Claims about the footer of generate_readme.                             *)

\* the italicised last line of the footer
GeneratedLine(timestamp) ==
    <<"*", "T", "h", "i", "s", " ", "R", "E", "A", "D", "M", "E", " ", "w", "a",
      "s", " ", "g", "e", "n", "e", "r", "a", "t", "e", "d", " ", "b", "y", " ",
      "R", "e", "p", "o", "W", "h", "i", "s", "p", "e", "r", "e", "r", " ", "o",
      "n", " ">> \o timestamp \o <<"*">>

\* the last two lines of a text are the rule and the generated-on line
EndsWithFooter(readme) ==
    LET lines == LinesOf(readme)
        n == Len(lines)
    IN  /\ n >= 2
        /\ lines[n - 1] = <<"-", "-", "-">>
        /\ \E timestamp \in Timestamps : lines[n] = GeneratedLine(timestamp)

----------------------------------------------------------------------------
(* Claims about generate_with_llm.                                         *)

IsErrorText(r) ==
    r.kind = "Error generating response" \/ r.kind = "Error processing chunk"

\* C20: whenever the model cannot be loaded, or generating the response for
\* a prompt raises an error, generate_with_llm returns the list holding the
\* fallback template and nothing else, and no error text is among the
\* responses it returns.
C20_FallbackOnFailure ==
    llm_pc = "returned" =>
        /\ (failures \cap {"load", "generation"} # {})
              => llm_result = _generate_fallback_readme
        /\ \A k \in DOMAIN llm_result : ~IsErrorText(llm_result[k])

\* C26: when generation keeps failing with out of memory, every retry of
\* generate_response runs with a max_new_tokens strictly below the one of
\* the call before it; the value never goes back up to the default.
C26_RetryTokensDecrease ==
    [][GenerateResponseOom => max_new_tokens' < max_new_tokens]_vars

\* C27: after generate_with_llm has returned, on every path, the generation
\* capability is released: is_loaded is false, model and tokenizer are unset.
C27_ReleasedOnReturn ==
    llm_pc = "returned" =>
        /\ is_loaded = FALSE
        /\ model = "None"
        /\ tokenizer = "None"

----------------------------------------------------------------------------
(* Claims about fenced code blocks in clean_llm_response and               *)
(* validate_markdown.                                                      *)

\* every fence line of a text has its partner: the fence lines pair up
AllFencesClosed(t) == FenceCount(t) % 2 = 0

\* C29: for a response that does not begin with a fence and in which every
\* fence opener has its closing fence, the text clean_llm_response returns
\* still has a closing fence for every opener.
C29_CleanKeepsBlocksClosed ==
    (/\ clean_done
     /\ ~StartsWith(raw_response, FENCE)
     /\ AllFencesClosed(raw_response))
        => AllFencesClosed(cleaned_response)

\* the bare fence lines of a document pair up: each opener has its closer
BareFencesPaired(doc) ==
    LET lines == LinesOf(doc)
    IN  Cardinality({i \in DOMAIN lines : IsBareFence(lines[i])}) % 2 = 0

\* C30: for a document in which every bare fence opener is matched by a
\* later bare fence closer, validate_markdown reports no unclosed code block
\* issue; the closing fence line is not itself reported.
C30_NoUnclosedWhenClosed ==
    (document_checked /\ BareFencesPaired(document)) =>
        \A i \in DOMAIN LinesOf(document) :
            ~Reported(UnclosedIssue(i), document_issues)

----------------------------------------------------------------------------
(* Claims about write_to_file.                                             *)

\* the numbers of the calls in the log that were for path p
CallsFor(p) == {k \in DOMAIN write_log : write_log[k].filepath = p}

\* C25: when the latest write_to_file call for a path returned, the file at
\* that path holds exactly the content of that call, with nothing left of
\* what earlier writes or an earlier file put there.
C25_LastWriteWins ==
    \A p \in DOMAIN files :
        (CallsFor(p) # {} /\ write_log[SetMax(CallsFor(p))].ok) =>
            /\ files[p].exists
            /\ files[p].data = write_log[SetMax(CallsFor(p))].content

\* a longer text, then a shorter one, written to the same path: the file
\* holds the shorter one
C25_Witness ==
    /\ Len(write_log) = 2
    /\ write_log[1] = WriteCall(<<"#", SP, "T">>, "README.md", TRUE)
    /\ write_log[2] = WriteCall(<<"b">>, "README.md", TRUE)
    /\ files["README.md"].data = <<"b">>

----------------------------------------------------------------------------
(* Claims about analyze_project.                                           *)

\* the files whose entries are in a list of structures
FilesIn(list) == {list[k].filepath : k \in DOMAIN list}

\* C24: when analyze_project has returned, a file whose extraction failed
\* (unreadable, syntax error, or parse_file raising) has no entry among the
\* structures, and every other file among the first 50 has its entry.
C24_FailedFilesSkipped ==
    (analyze_pc = "returned" /\ file_paths # <<>>) =>
        FilesIn(structures) = {k \in 1..LastParsed : file_paths[k] = "parsed"}

----------------------------------------------------------------------------
(* Claims about RepoWhisperer.generate_readme.                             *)

\* the same machine in which generate_readme goes on to line 242 once
\* validate_markdown has returned
SpecRunFair == SpecRun /\ WF_vars(RunWrite \/ RunWriteRaises)

\* C21: if analyze_project returns no structures, generate_readme ends with
\* an error raised to its caller; in that run no prompt is built, no model
\* is loaded, no file is written, and main() does not report success.
C21_NoStructuresRaises ==
    (analyze_pc = "returned" /\ structures = <<>>) =>
        /\ run_pc \in {"analyzing", "raised"}
        /\ ~prompts_built
        /\ llm_pc = "idle"
        /\ ~is_loaded
        /\ model = "None"
        /\ write_log = <<>>
        /\ main_status # "succeeded"

\* walk_project found no file and the run has ended in an error
C21_Witness ==
    /\ path_exists
    /\ file_paths = <<>>
    /\ analyze_pc = "returned"
    /\ run_pc = "raised"
    /\ main_status = "failed"
    /\ write_log = <<>>

\* C22: in every run that reaches validation, write_to_file is called
\* exactly once afterwards, with the assembled document as it is, whatever
\* the number of issues validate_markdown returned.
C22_WrittenOnceAfterValidation ==
    /\ [](Len(write_log) <= 1)
    /\ [](write_log # <<>> =>
             (validated /\ write_log[1].content = final_readme))
    /\ (validated ~> (Len(write_log) = 1))

\* a document with two issues has been written as assembled
C22_Witness ==
    /\ Len(issues) >= 2
    /\ Len(write_log) = 1
    /\ write_log[1].ok
    /\ write_log[1].content = final_readme
    /\ run_pc = "returned"

\* C23: if writing the document fails, write_to_file raises, generate_readme
\* raises in turn, the write is not tried again, and main() does not report
\* success.
C23_WriteFailureRaised ==
    (write_log # <<>> /\ ~write_log[Len(write_log)].ok) =>
        /\ run_pc = "raised"
        /\ Len(write_log) = 1
        /\ main_status # "succeeded"

\* the only write of the run failed and main() reported the failure
C23_Witness ==
    /\ Len(write_log) = 1
    /\ ~write_log[1].ok
    /\ validated
    /\ run_pc = "raised"
    /\ main_status = "failed"

====
